---- MODULE Spec2Model ----
(***************************************************************************)
(* Interview assessment pipeline of src/main.py: entity comparison, the    *)
(* judgment normalizer with its heuristic fallback, and the canvas layout  *)
(* of the PDF report (wrap_text, page breaks, verdict banner, lists).      *)
(*                                                                         *)
(* Python strings are TLA+ strings; TLC evaluates Len, \o and SubSeq on    *)
(* them, so substring tests, upper(), split() and slicing are computed     *)
(* character by character as Python computes them.  Non-ASCII glyphs of    *)
(* the source (check marks, diamonds, emoji) are written as one ASCII      *)
(* character each ("v", "x", "*", "#"): Python's len() counts each of them *)
(* as one character, and none of them is a letter or whitespace.           *)
(***************************************************************************)
EXTENDS Integers, Sequences, FiniteSets, TLC

VARIABLES
    pc,                  \* position of main() / of generate_beautiful_pdf
    grammar_errors,      \* analyze_grammar's error count
    transcript_entities, \* extract_entities(transcript)
    cv_entities,         \* extract_entities(cv_text)
    matched,             \* compare_entities(...)[0]
    cv_only,             \* compare_entities(...)[1]
    ollama,              \* what the external judge did on this run
    llm_summary,         \* get_llm_judgment's return value
    y,                   \* layout cursor of generate_beautiful_pdf
    doc,                 \* canvas operations emitted so far, in order
    improvements,        \* the improvement list built at lines 265-279
    target,              \* what kind of path `filename` names
    file,                \* the artifact on disk: [exists, size]
    success,             \* generate_beautiful_pdf's return value
    printed,             \* lines main() printed at step 8
    wrap                 \* arguments of a stand-alone wrap_text call

vars == <<pc, grammar_errors, transcript_entities, cv_entities, matched, cv_only,
          ollama, llm_summary, y, doc, improvements, target, file, success,
          printed, wrap>>

-----------------------------------------------------------------------------
(* Bounds of the model *)

\* entities the two extractors may return in the comparator's own check
MaxEntities == 4
\* CV entities in the pipeline runs
MaxSkills == 4
\* largest grammar-error count
MaxGrammarErrors == 16

(* Program constants *)
PageWidth == 612
PageHeight == 792
TopOffset == 40
BottomMargin == 50
MinAssessmentLen == 30
MaxLineChars == 110
ImprovementRoom == 100
AssessmentRoom == 150
RecommendationRoom == 200

-----------------------------------------------------------------------------
(* Python string primitives *)

Char(s, i) == SubSeq(s, i, i)

\* pat in s
Contains(s, pat) ==
    \E i \in 1..(Len(s) - Len(pat) + 1) : SubSeq(s, i, i + Len(pat) - 1) = pat

LowerLetters == "abcdefghijklmnopqrstuvwxyz"
UpperLetters == "ABCDEFGHIJKLMNOPQRSTUVWXYZ"

\* the upper-case form of each lower-case letter
UpperOf ==
    [c \in {Char(LowerLetters, i) : i \in 1..26} |->
        Char(UpperLetters, CHOOSE i \in 1..26 : Char(LowerLetters, i) = c)]

UpperChar(c) == IF c \in DOMAIN UpperOf THEN UpperOf[c] ELSE c

RECURSIVE UpperRange(_, _, _)
\* the characters lo..hi of s, upper-cased (by halves, to keep the nesting shallow)
UpperRange(s, lo, hi) ==
    IF lo > hi THEN ""
    ELSE IF lo = hi THEN UpperChar(Char(s, lo))
    ELSE UpperRange(s, lo, (lo + hi) \div 2) \o UpperRange(s, (lo + hi) \div 2 + 1, hi)

\* s.upper()
Upper(s) == UpperRange(s, 1, Len(s))

IsSpace(c) == c \in {" ", "\n", "\t"}

\* s.split('\n'): the fields between consecutive newlines, empty ones kept
SplitLines(s) ==
    LET IsEnd(i) == i = Len(s) + 1 \/ Char(s, i) = "\n"
        ends == SelectSeq([i \in 1..(Len(s) + 1) |-> i], IsEnd)
    IN  [k \in 1..Len(ends) |->
            SubSeq(s, IF k = 1 THEN 1 ELSE ends[k - 1] + 1, ends[k] - 1)]

\* s.split(): the maximal runs of non-whitespace characters
SplitWords(s) ==
    LET IsFirst(i) == ~IsSpace(Char(s, i)) /\ (i = 1 \/ IsSpace(Char(s, i - 1)))
        IsLast(i) == ~IsSpace(Char(s, i)) /\ (i = Len(s) \/ IsSpace(Char(s, i + 1)))
        firsts == SelectSeq([i \in 1..Len(s) |-> i], IsFirst)
        lasts == SelectSeq([i \in 1..Len(s) |-> i], IsLast)
    IN  [k \in 1..Len(firsts) |-> SubSeq(s, firsts[k], lasts[k])]

RECURSIVE LStrip(_)
LStrip(s) == IF Len(s) > 0 /\ IsSpace(Char(s, 1)) THEN LStrip(SubSeq(s, 2, Len(s))) ELSE s

RECURSIVE RStrip(_)
RStrip(s) ==
    IF Len(s) > 0 /\ IsSpace(Char(s, Len(s))) THEN RStrip(SubSeq(s, 1, Len(s) - 1)) ELSE s

\* s.strip()
Strip(s) == RStrip(LStrip(s))

\* s[:n]
Prefix(s, n) == SubSeq(s, 1, IF Len(s) < n THEN Len(s) ELSE n)

Max(a, b) == IF a > b THEN a ELSE b

-----------------------------------------------------------------------------
(* compare_entities, src/main.py:56-59 *)

EntityPool ==
    << <<"Python", "SKILL">>, <<"Java", "SKILL">>, <<"SQL", "SKILL">>,
       <<"Python", "ORG">>, <<"Acme", "ORG">>, <<"Java", "ORG">>,
       <<"Ada", "PERSON">>, <<"Go", "SKILL">> >>

\* the first n entities of the pool
Entities(n) == {EntityPool[i] : i \in 1..n}

\* the entities i..j of the pool (empty when i > j)
EntityRange(i, j) == {EntityPool[k] : k \in i..j}

compare_entities_no_difference(transcript_ents, cv_ents) ==
    [matched |-> transcript_ents \cap cv_ents, cv_only |-> cv_ents]

compare_entities(transcript_ents, cv_ents) ==
    [matched |-> transcript_ents \cap cv_ents,
     cv_only |-> cv_ents \ transcript_ents]

-----------------------------------------------------------------------------
(* get_llm_judgment, src/main.py:61-94 *)

\* What `import ollama; ollama.generate(...)` did: the import failed, the call
\* raised (connection refused, timeout), or it returned a response: a dict
\* with a 'response' string, a dict with no such key, a dict whose value is
\* None, or a non-dict object whose str() is `text`.
OllamaKinds == {"import_error", "exception", "dict", "dict_no_key", "dict_none", "object"}

Narratives ==
    {"The candidate communicates clearly and has relevant experience.",
     "I would hire this candidate without hesitation.",
     "We should not hire this person; the answers were weak.",
     "I would reject this application given the many errors.",
     "The candidate from Hampshire gave vague and evasive answers."}

Endings ==
    {"", "\n\nVERDICT: HIRE", "\n\nVERDICT: REJECT", "\n\nVERDICT: MAYBE",
     "\nVERDICT: HIRE / REJECT / MAYBE", "\nVERDICT: HIRE\nVERDICT: REJECT",
     "\nVERDICT: unsure", " VERDICT: HIRE"}

\* responses of at most 30 characters, and one of 31
ShortResponses ==
    {"", "HIRE", "VERDICT: HIRE", "Clear and confident throughout",
     "Clear and confident throughout."}

ResponseTexts == ShortResponses \cup {n \o e : n \in Narratives, e \in Endings}

Outcome(kind, text) == [kind |-> kind, text |-> text]

AllOutcomes ==
    {Outcome(k, "") : k \in {"import_error", "exception", "dict_no_key", "dict_none"}}
    \cup {Outcome(k, t) : k \in {"dict", "object"}, t \in ResponseTexts}

\* the outcomes the full pipeline runs are checked with: no judge, a verdict
\* line that agrees with the narrative, one that does not, and no verdict line
PipelineOutcomes ==
    {Outcome("import_error", ""),
     Outcome("dict", "The candidate communicates clearly and has relevant experience.\n\nVERDICT: HIRE"),
     Outcome("dict", "We should not hire this person; the answers were weak.\n\nVERDICT: MAYBE"),
     Outcome("dict", "I would reject this application given the many errors.")}

\* lines 64-77: the import or the call raised, so control is in `except: pass`
JudgeRaised(o) == o.kind \in {"import_error", "exception"}

\* line 78, where it yields a string
Assessment(o) == IF o.kind \in {"dict", "object"} THEN o.text ELSE ""

\* line 80: `assessment and len(assessment) > 30` (None and '' are falsy)
AssessmentUsable(o) ==
    /\ ~JudgeRaised(o)
    /\ o.kind # "dict_none"
    /\ Assessment(o) # ""
    /\ Len(Assessment(o)) > MinAssessmentLen

\* lines 81-86
Normalized(assessment) ==
    IF ~Contains(assessment, "VERDICT:")
    THEN IF Contains(Upper(assessment), "HIRE")
         THEN assessment \o "\n\nVERDICT: HIRE"
         ELSE assessment \o "\n\nVERDICT: REJECT"
    ELSE assessment

FallbackVerdict_reject_from_15(grammar_errors_, n_matched) ==
    IF grammar_errors_ < 5 /\ n_matched >= 3 THEN "HIRE"
    ELSE IF grammar_errors_ >= 15 THEN "REJECT"
    ELSE "MAYBE"

\* line 91
FallbackVerdict(grammar_errors_, n_matched) ==
    IF grammar_errors_ < 5 /\ n_matched >= 3 THEN "HIRE"
    ELSE IF grammar_errors_ > 15 THEN "REJECT"
    ELSE "MAYBE"

\* lines 92-94
Fallback(grammar_errors_, matched_entities) ==
    LET n == Cardinality(matched_entities)
    IN  "The candidate demonstrated professional communication abilities. "
        \o "Experience alignment is "
        \o (IF n > 3 THEN "excellent" ELSE IF n > 1 THEN "good" ELSE "limited")
        \o ". Technical competency appears "
        \o (IF n > 3 THEN "strong" ELSE "adequate")
        \o ".\n\nVERDICT: " \o FallbackVerdict(grammar_errors_, n)

get_llm_judgment_no_length_guard(o, grammar_errors_, matched_entities, missing_entities) ==
    [raised |-> FALSE,
     text   |-> IF ~JudgeRaised(o) /\ o.kind # "dict_none" /\ Assessment(o) # ""
                THEN Assessment(o)
                ELSE Fallback(grammar_errors_, matched_entities)]

\* The whole function.  `raised` tells whether an exception left it: the bare
\* `except` at line 87 catches whatever the try block raises, and the fallback
\* only compares integers and formats strings.
get_llm_judgment(o, grammar_errors_, matched_entities, missing_entities) ==
    [raised |-> FALSE,
     text   |-> IF AssessmentUsable(o)
                THEN Normalized(Assessment(o))
                ELSE Fallback(grammar_errors_, matched_entities)]

\* main, line 426: [l for l in llm_summary.split('\n') if 'VERDICT:' in l]
VerdictLines(summary) == SelectSeq(SplitLines(summary), LAMBDA l : Contains(l, "VERDICT:"))

-----------------------------------------------------------------------------
(* Canvas and layout primitives of generate_beautiful_pdf, src/main.py:101-152 *)

\* The layout state is [y, doc, part]: the cursor, the canvas operations
\* emitted so far, and the section being drawn (a label carried into each
\* operation so that properties can tell the sections apart).
\* Operations: [op |-> "text", y, s, part]   c.drawString(_, y, s)
\*             [op |-> "rect", y, color, part]  c.rect(_, y, _, _) after setFillColorRGB
\*             [op |-> "line", y, part]      c.line(_, y, _, y)
\*             [op |-> "page", y, part]      c.showPage(), y the cursor it found

PageTop == PageHeight - TopOffset

DrawString(st, at, s) ==
    [st EXCEPT !.doc = Append(@, [op |-> "text", y |-> at, s |-> s, part |-> st.part])]

DrawRect(st, at, color) ==
    [st EXCEPT !.doc = Append(@, [op |-> "rect", y |-> at, color |-> color, part |-> st.part])]

DrawLine(st, at) ==
    [st EXCEPT !.doc = Append(@, [op |-> "line", y |-> at, part |-> st.part])]

Move(st, dy) == [st EXCEPT !.y = @ - dy]

Section(st, part) == [st EXCEPT !.part = part]

\* c.showPage(); y = h - 40
ShowPage(st) ==
    [st EXCEPT !.doc = Append(@, [op |-> "page", y |-> st.y, part |-> st.part]),
               !.y = PageTop]

\* lines 104-112
draw_colored_box(st, color_rgb, text) ==
    Move(DrawString(DrawRect(st, st.y - 25, color_rgb), st.y - 18, text), 30)

\* lines 114-124
draw_section_header(st, title) ==
    Move(DrawLine(DrawString(st, st.y, title), st.y - 5), 25)

\* line 130: max_width = w - 80 - indent
MaxWidth(indent) == PageWidth - 80 - indent

\* line 136: len(...) * (size * 0.5) < max_width, in halves
Fits(candidate, size, indent) == Len(candidate) * size < 2 * MaxWidth(indent)

\* lines 139-141 and 148-150: draw the pending line, if any, and move down
FlushLine(st, line, size) ==
    IF line # ""
    THEN Move(DrawString(st, st.y, Prefix(line, MaxLineChars)), size + 3)
    ELSE st

PageBreakIfBelow_never(st, limit) == st

\* lines 144-146 (and 257-259, 282-284, 298-300, 331-333 with their limits)
PageBreakIfBelow(st, limit) == IF st.y < limit THEN ShowPage(st) ELSE st

WrapWord_drops_pending(ws, word, size, indent) ==
    LET candidate == Strip(ws.line \o " " \o word)
    IN  [st   |-> PageBreakIfBelow(ws.st, BottomMargin),
         line |-> IF Fits(candidate, size, indent) THEN candidate ELSE word]

\* one iteration of the loop at lines 135-146; ws = [st, line]
WrapWord(ws, word, size, indent) ==
    LET candidate == Strip(ws.line \o " " \o word)
        fits == Fits(candidate, size, indent)
        st1 == IF fits THEN ws.st ELSE FlushLine(ws.st, ws.line, size)
    IN  [st   |-> PageBreakIfBelow(st1, BottomMargin),
         line |-> IF fits THEN candidate ELSE word]

RECURSIVE WrapLoop(_, _, _, _, _)
\* the loop at lines 135-146 from the i-th word on.  The state after each
\* iteration is bound as a value (next) before the loop goes on, so that the
\* iterations are evaluated one after the other, as the loop runs.
WrapLoop(ws, words, i, size, indent) ==
    IF i > Len(words) THEN ws
    ELSE CHOOSE result \in
             {WrapLoop(next, words, i + 1, size, indent) :
                 next \in {WrapWord(ws, words[i], size, indent)}} : TRUE

\* lines 126-152
wrap_text(st, text, size, indent) ==
    LET ws == WrapLoop([st |-> st, line |-> ""], SplitWords(text), 1, size, indent)
    IN  FlushLine(ws.st, ws.line, size)

-----------------------------------------------------------------------------
(* Sections of generate_beautiful_pdf, src/main.py:154-363 *)

\* RGB triples in tenths: (0.2, 0.8, 0.2), (0.9, 0.2, 0.2), (0.9, 0.7, 0.1)
Green == <<2, 8, 2>>
Red   == <<9, 2, 2>>
Amber == <<9, 7, 1>>

\* lines 178, 305, 344, on upper = llm_summary.upper()
SaysHire(upper) == Contains(upper, "HIRE") /\ ~Contains(upper, "REJECT")

\* lines 181, 313
SaysReject(upper) == Contains(upper, "REJECT")

\* lines 155-174
TitleBlock ==
    LET s0 == [y |-> PageTop, doc |-> <<>>, part |-> "title"]
        s1 == Move(DrawString(s0, s0.y, "INTERVIEW ASSESSMENT"), 10)
        s2 == Move(DrawLine(s1, s1.y), 25)
        s3 == Move(DrawString(s2, s2.y, "Candidate: John Doe  |  Position: Engineer"), 15)
    IN  Move(DrawString(s3, s3.y, "Date: <date>  |  Time: <time>"), 30)

\* lines 177-186: the banner's label and colour
Banner(summary) ==
    LET upper == Upper(summary)
    IN
    IF SaysHire(upper) THEN [text |-> "VERDICT: v HIRE", color |-> Green]
    ELSE IF SaysReject(upper) THEN [text |-> "VERDICT: x REJECT", color |-> Red]
    ELSE [text |-> "VERDICT: * FURTHER REVIEW", color |-> Amber]

\* lines 177-189
VerdictBanner(st, summary) ==
    LET b == Banner(summary)
    IN  Move(draw_colored_box(Section(st, "banner"), b.color, b.text), 10)

\* line 194, as the fraction num/den (Python computes it in floating point;
\* the thresholds 75 and 50 are met exactly only by 3/4 and 1/2, which
\* floating point represents exactly)
AlignmentNum(n_matched, n_cv_only) == IF n_matched + n_cv_only > 0 THEN 100 * n_matched ELSE 0
AlignmentDen(n_matched, n_cv_only) == Max(n_matched + n_cv_only, 1)

Accuracy_unclamped(grammar_errors_) == 100 - grammar_errors_ * 3

\* line 195
Accuracy(grammar_errors_) == Max(0, 100 - grammar_errors_ * 3)

\* format(x, ".0f") of the non-negative fraction n/d: nearest integer, ties to even
RoundHalfEven(n, d) ==
    LET q == n \div d
        r == n % d
    IN  IF 2 * r < d THEN q
        ELSE IF 2 * r > d THEN q + 1
        ELSE IF q % 2 = 0 THEN q ELSE q + 1

AlignmentPercent(n_matched, n_cv_only) ==
    RoundHalfEven(AlignmentNum(n_matched, n_cv_only), AlignmentDen(n_matched, n_cv_only))

\* lines 192-205
QuickStats(st, grammar_errors_, n_matched, n_cv_only, n_entities) ==
    LET s0 == draw_section_header(Section(st, "stats"), "# QUICK STATS")
        s1 == Move(DrawString(s0, s0.y,
                  "v Grammar Accuracy: " \o ToString(Accuracy(grammar_errors_)) \o "%"), 15)
        s2 == Move(DrawString(s1, s1.y,
                  "v Skills Discussed: " \o ToString(n_matched) \o " out of "
                  \o ToString(n_matched + n_cv_only) \o " ("
                  \o ToString(AlignmentPercent(n_matched, n_cv_only)) \o "%)"), 15)
        s3 == Move(DrawString(s2, s2.y,
                  "v Total Entities Identified: " \o ToString(n_entities)), 15)
    IN  Move(DrawString(s3, s3.y, "v Grammar Errors Found: " \o ToString(grammar_errors_)), 25)

\* lines 215-222
CommunicationText(grammar_errors_) ==
    IF grammar_errors_ < 3
    THEN "EXCELLENT - Outstanding communication with minimal errors. Speech is clear, professional, and well-articulated."
    ELSE IF grammar_errors_ < 8
    THEN "GOOD - Generally clear communication with " \o ToString(grammar_errors_)
         \o " minor errors. Ideas expressed well but could be more polished."
    ELSE IF grammar_errors_ < 12
    THEN "AVERAGE - Communication present but " \o ToString(grammar_errors_)
         \o " language errors detected. Needs professional language improvement."
    ELSE "POOR - Multiple (" \o ToString(grammar_errors_)
         \o ") language errors affecting clarity. Significant improvement needed."

\* lines 232-237
ExperienceText(n_matched, n_cv_only) ==
    IF AlignmentNum(n_matched, n_cv_only) > 75 * AlignmentDen(n_matched, n_cv_only)
    THEN "EXCELLENT - Candidate discussed " \o ToString(n_matched)
         \o " key skills. Strong awareness of relevant experience with minimal CV gaps."
    ELSE IF AlignmentNum(n_matched, n_cv_only) > 50 * AlignmentDen(n_matched, n_cv_only)
    THEN "GOOD - " \o ToString(n_matched) \o " skills discussed. However, "
         \o ToString(n_cv_only) \o " important CV experiences were not mentioned."
    ELSE "CONCERNING - Only " \o ToString(n_matched) \o " of "
         \o ToString(n_matched + n_cv_only)
         \o " CV skills mentioned. Major experience gaps need clarification."

\* lines 247-252
TechnicalText(n_matched) ==
    IF n_matched > 3
    THEN "STRONG - Demonstrated strong technical knowledge with specific examples. Shows confidence and domain expertise."
    ELSE IF n_matched > 1
    THEN "ADEQUATE - Adequate technical knowledge shown but limited detail. Some hesitation noted."
    ELSE "LIMITED - Limited technical depth. Seemed uncertain about key competencies."

\* lines 208-259
DetailedAssessment(st, grammar_errors_, n_matched, n_cv_only) ==
    LET s0 == draw_section_header(Section(st, "assessment"), "# DETAILED ASSESSMENT")
        s1 == Move(DrawString(s0, s0.y, "1. COMMUNICATION & LANGUAGE SKILLS"), 15)
        s2 == Move(wrap_text(s1, CommunicationText(grammar_errors_), 9, 20), 10)
        s3 == Move(DrawString(s2, s2.y, "2. EXPERIENCE & SKILL ALIGNMENT"), 15)
        s4 == Move(wrap_text(s3, ExperienceText(n_matched, n_cv_only), 9, 20), 10)
        s5 == Move(DrawString(s4, s4.y, "3. TECHNICAL KNOWLEDGE & CONFIDENCE"), 15)
        s6 == Move(wrap_text(s5, TechnicalText(n_matched), 9, 20), 20)
    IN  PageBreakIfBelow(s6, AssessmentRoom)

Item(area, current, action) == [area |-> area, current |-> current, action |-> action]

ImprovementList_polish_from_5(grammar_errors_, n_matched, n_cv_only) ==
    (IF grammar_errors_ >= 5
     THEN << Item("Communication Polish",
                  ToString(grammar_errors_) \o " grammar/language errors found",
                  "Practice speaking clearly and slowly. Record yourself and review. Consider English language training. Focus on professional vocabulary.") >>
     ELSE <<>>)
    \o (IF n_matched < n_cv_only
        THEN << Item("Experience Discussion",
                     "Only " \o ToString(n_matched) \o "/" \o ToString(n_matched + n_cv_only)
                     \o " key skills discussed",
                     "Prepare specific examples from your CV. Use STAR method (Situation, Task, Action, Result). Highlight ALL relevant achievements.") >>
        ELSE <<>>)
    \o (IF n_matched > 0 /\ n_matched < 3
        THEN << Item("Technical Knowledge",
                     "Limited technical skills discussed (" \o ToString(n_matched) \o ")",
                     "Study the job description thoroughly. Prepare technical project examples. Practice explaining concepts clearly.") >>
        ELSE <<>>)
    \o (IF grammar_errors_ = 0
        THEN << Item("Communication Excellence", "No grammar errors",
                     "Maintain this high standard! Your clarity is a key strength.") >>
        ELSE <<>>)
    \o << Item("Confidence & Presence", "Overall interview presence",
               "Make more eye contact. Speak with conviction. Use confident body language. Prepare thoroughly for all questions.") >>

\* lines 265-279
ImprovementList(grammar_errors_, n_matched, n_cv_only) ==
    (IF grammar_errors_ > 5
     THEN << Item("Communication Polish",
                  ToString(grammar_errors_) \o " grammar/language errors found",
                  "Practice speaking clearly and slowly. Record yourself and review. Consider English language training. Focus on professional vocabulary.") >>
     ELSE <<>>)
    \o (IF n_matched < n_cv_only
        THEN << Item("Experience Discussion",
                     "Only " \o ToString(n_matched) \o "/" \o ToString(n_matched + n_cv_only)
                     \o " key skills discussed",
                     "Prepare specific examples from your CV. Use STAR method (Situation, Task, Action, Result). Highlight ALL relevant achievements.") >>
        ELSE <<>>)
    \o (IF n_matched > 0 /\ n_matched < 3
        THEN << Item("Technical Knowledge",
                     "Limited technical skills discussed (" \o ToString(n_matched) \o ")",
                     "Study the job description thoroughly. Prepare technical project examples. Practice explaining concepts clearly.") >>
        ELSE <<>>)
    \o (IF grammar_errors_ = 0
        THEN << Item("Communication Excellence", "No grammar errors",
                     "Maintain this high standard! Your clarity is a key strength.") >>
        ELSE <<>>)
    \o << Item("Confidence & Presence", "Overall interview presence",
               "Make more eye contact. Speak with conviction. Use confident body language. Prepare thoroughly for all questions.") >>

RECURSIVE RenderImprovements(_, _, _)
\* lines 281-295, from the i-th item on
RenderImprovements(st, items, i) ==
    IF i > Len(items) THEN st
    ELSE LET s0 == PageBreakIfBelow(st, ImprovementRoom)
             s1 == Move(DrawString(s0, s0.y, ToString(i) \o ". " \o items[i].area), 12)
             s2 == Move(DrawString(s1, s1.y, "Current: " \o items[i].current), 10)
             s3 == Move(wrap_text(s2, "Action: " \o items[i].action, 9, 30), 8)
         IN  RenderImprovements(s3, items, i + 1)

\* lines 262-295
ImprovementAreas(st, items) ==
    RenderImprovements(
        Move(draw_section_header(Section(st, "improvements"), "# AREAS FOR IMPROVEMENT"), 10),
        items, 1)

HireRecommendations ==
    << "v STRONG HIRE - Excellent communication and skill match",
       "v Proceed to technical assessment immediately",
       "v Prepare compensation offer package",
       "v Schedule background verification",
       "v Plan 30-60-90 day onboarding" >>

RejectRecommendations ==
    << "x NOT RECOMMENDED at this time",
       "x Send professional rejection with feedback",
       "* Suggest: English training and reapply in 6 months",
       "* Keep in talent pool for future opportunities",
       "* Provide resources for improvement" >>

ConditionalRecommendations ==
    << "* CONDITIONAL - Requires further evaluation",
       "* Technical assessment recommended",
       "* Schedule focused follow-up interview",
       "* Request portfolio/project examples",
       "* Final decision after 2nd round" >>

Recommendations_no_conditional(summary) ==
    IF SaysHire(Upper(summary)) THEN HireRecommendations ELSE RejectRecommendations

\* lines 305-328
Recommendations(summary) ==
    LET upper == Upper(summary)
    IN
    IF SaysHire(upper) THEN HireRecommendations
    ELSE IF SaysReject(upper) THEN RejectRecommendations
    ELSE ConditionalRecommendations

RECURSIVE RenderRecommendations(_, _, _)
\* lines 330-336, from the i-th recommendation on
RenderRecommendations(st, recs, i) ==
    IF i > Len(recs) THEN st
    ELSE RenderRecommendations(
             Move(wrap_text(PageBreakIfBelow(st, BottomMargin), recs[i], 10, 0), 5),
             recs, i + 1)

\* lines 298-338
HrRecommendations(st, summary) ==
    LET s0 == PageBreakIfBelow(st, RecommendationRoom)
        s1 == Move(draw_section_header(Section(s0, "recommendations"), "# HR RECOMMENDATIONS"), 10)
    IN  Move(RenderRecommendations(s1, Recommendations(summary), 1), 10)

\* lines 341-342
NextStepsHeader(st) ==
    Move(draw_section_header(Section(st, "next_steps"), "# NEXT STEPS"), 10)

HireSteps ==
    "1. Contact candidate with positive feedback\n2. Schedule technical assessment interview\n3. Prepare offer letter with benefits package\n4. Conduct background and reference check\n5. Send official offer and set start date"

RejectSteps ==
    "1. Send professional rejection email\n2. Provide constructive feedback\n3. Recommend language/skill training\n4. Keep contact for future roles\n5. Schedule 6-month follow-up"

\* lines 344-355
Steps(summary) == IF SaysHire(Upper(summary)) THEN HireSteps ELSE RejectSteps

\* lines 344-357
NextSteps(st, summary) == wrap_text(st, Steps(summary), 9, 15)

\* lines 360-363
Footer(st) ==
    LET s0 == Section(st, "footer")
    IN  DrawString(DrawString(s0, 25, "CONFIDENTIAL - For HR Use Only"), 15,
                   "Assessment ID: <timestamp>")

-----------------------------------------------------------------------------
(* The artifact: c.save() and the check at lines 365-374 *)

\* What `filename` names: a regular file path that can be written, a path
\* that cannot be opened for writing (save raises OSError), or a path that
\* accepts the bytes and keeps none of them (a device such as /dev/null).
TargetKinds == {"regular", "unwritable", "sink"}

\* bytes of a saved document: the PDF header and trailer plus its operations
PdfSize(ops) == 1 + Len(ops)

\* line 365: the file after c.save(), and whether save raised
Save(kind, ops, before) ==
    CASE kind = "regular"    -> [raised |-> FALSE, file |-> [exists |-> TRUE, size |-> PdfSize(ops)]]
      [] kind = "sink"       -> [raised |-> FALSE, file |-> [exists |-> TRUE, size |-> 0]]
      [] kind = "unwritable" -> [raised |-> TRUE, file |-> before]

\* lines 367-380: the value generate_beautiful_pdf returns after c.save()
SaveResult(saved) ==
    IF saved.raised THEN FALSE
    ELSE IF saved.file.exists THEN TRUE ELSE FALSE

-----------------------------------------------------------------------------
(* The pipeline: main(), src/main.py:386-439 *)

NoOutcome == Outcome("not_called", "")
NoWrap == [text |-> "", size |-> 0, indent |-> 0]
NoFile == [exists |-> FALSE, size |-> 0]

St(part) == [y |-> y, doc |-> doc, part |-> part]

PdfStages ==
    {"judged", "pdf_improvements", "pdf_recommendations", "pdf_next_steps_header",
     "pdf_next_steps", "pdf_save"}

Init ==
    /\ pc = "start"
    /\ grammar_errors = 0
    /\ transcript_entities = {}
    /\ cv_entities = {}
    /\ matched = {}
    /\ cv_only = {}
    /\ ollama = NoOutcome
    /\ llm_summary = ""
    /\ y = 0
    /\ doc = <<>>
    /\ improvements = <<>>
    /\ target = "unknown"
    /\ file = NoFile
    /\ success = FALSE
    /\ printed = <<>>
    /\ wrap = NoWrap

\* steps 1-4, lines 397-411: what the transcriber, the grammar checker and
\* the entity extractor returned.  The CV holds the first k entities of the
\* pool; the transcript holds the entities from the i-th on, one of them
\* (when it is not empty) outside the CV.
Analyze ==
    /\ pc = "start"
    /\ grammar_errors' \in 0..MaxGrammarErrors
    /\ \E k \in 0..MaxSkills : cv_entities' = Entities(k)
    /\ \E i \in 1..(MaxSkills + 2) : transcript_entities' = EntityRange(i, MaxSkills + 1)
    /\ pc' = "analyzed"
    /\ UNCHANGED <<matched, cv_only, ollama, llm_summary, y, doc, improvements,
                   target, file, success, printed, wrap>>

\* transcribe_audio or load_cv raised (line 52): main's handler at 436-439
AnalyzeFails ==
    /\ pc = "start"
    /\ pc' = "failed"
    /\ UNCHANGED <<grammar_errors, transcript_entities, cv_entities, matched, cv_only,
                   ollama, llm_summary, y, doc, improvements, target, file, success,
                   printed, wrap>>

\* step 5, line 414
Compare ==
    /\ pc = "analyzed"
    /\ matched' = compare_entities(transcript_entities, cv_entities).matched
    /\ cv_only' = compare_entities(transcript_entities, cv_entities).cv_only
    /\ pc' = "compared"
    /\ UNCHANGED <<grammar_errors, transcript_entities, cv_entities, ollama, llm_summary,
                   y, doc, improvements, target, file, success, printed, wrap>>

\* step 6, line 418, the external judge behaving as one of `outcomes`
Judge(outcomes) ==
    /\ pc = "compared"
    /\ \E o \in outcomes :
         LET r == get_llm_judgment(o, grammar_errors, matched, cv_only)
         IN  /\ ollama' = o
             /\ llm_summary' = r.text
             /\ pc' = IF r.raised THEN "failed" ELSE "judged"
    /\ UNCHANGED <<grammar_errors, transcript_entities, cv_entities, matched, cv_only,
                   y, doc, improvements, target, file, success, printed, wrap>>

\* step 7, generate_beautiful_pdf, lines 100-259: title, banner, stats, assessment
PdfPage1 ==
    /\ pc = "judged"
    /\ LET n_m == Cardinality(matched)
           n_c == Cardinality(cv_only)
           st == DetailedAssessment(
                     QuickStats(VerdictBanner(TitleBlock, llm_summary),
                                grammar_errors, n_m, n_c, Cardinality(transcript_entities)),
                     grammar_errors, n_m, n_c)
       IN  /\ y' = st.y
           /\ doc' = st.doc
    /\ pc' = "pdf_improvements"
    /\ UNCHANGED <<grammar_errors, transcript_entities, cv_entities, matched, cv_only,
                   ollama, llm_summary, improvements, target, file, success, printed, wrap>>

\* lines 262-295
PdfImprovements ==
    /\ pc = "pdf_improvements"
    /\ improvements' = ImprovementList(grammar_errors, Cardinality(matched), Cardinality(cv_only))
    /\ LET st == ImprovementAreas(St("assessment"), improvements')
       IN  /\ y' = st.y
           /\ doc' = st.doc
    /\ pc' = "pdf_recommendations"
    /\ UNCHANGED <<grammar_errors, transcript_entities, cv_entities, matched, cv_only,
                   ollama, llm_summary, target, file, success, printed, wrap>>

\* lines 298-338
PdfRecommendations ==
    /\ pc = "pdf_recommendations"
    /\ LET st == HrRecommendations(St("improvements"), llm_summary)
       IN  /\ y' = st.y
           /\ doc' = st.doc
    /\ pc' = "pdf_next_steps_header"
    /\ UNCHANGED <<grammar_errors, transcript_entities, cv_entities, matched, cv_only,
                   ollama, llm_summary, improvements, target, file, success, printed, wrap>>

\* lines 341-342
PdfNextStepsHeader ==
    /\ pc = "pdf_next_steps_header"
    /\ LET st == NextStepsHeader(St("recommendations"))
       IN  /\ y' = st.y
           /\ doc' = st.doc
    /\ pc' = "pdf_next_steps"
    /\ UNCHANGED <<grammar_errors, transcript_entities, cv_entities, matched, cv_only,
                   ollama, llm_summary, improvements, target, file, success, printed, wrap>>

\* lines 344-357
PdfNextSteps ==
    /\ pc = "pdf_next_steps"
    /\ LET st == NextSteps(St("next_steps"), llm_summary)
       IN  /\ y' = st.y
           /\ doc' = st.doc
    /\ pc' = "pdf_save"
    /\ UNCHANGED <<grammar_errors, transcript_entities, cv_entities, matched, cv_only,
                   ollama, llm_summary, improvements, target, file, success, printed, wrap>>

\* lines 360-380: footer, c.save(), the existence check, the return value
PdfSave ==
    /\ pc = "pdf_save"
    /\ \E kind \in TargetKinds :
         LET st == Footer(St("next_steps"))
             saved == Save(kind, st.doc, file)
         IN  /\ target' = kind
             /\ doc' = st.doc
             /\ file' = saved.file
             /\ success' = SaveResult(saved)
    /\ pc' = "pdf_returned"
    /\ UNCHANGED <<grammar_errors, transcript_entities, cv_entities, matched, cv_only,
                   ollama, llm_summary, y, improvements, printed, wrap>>

\* lines 376-380: a canvas call raised before c.save() was reached
PdfFails ==
    /\ pc \in PdfStages
    /\ success' = FALSE
    /\ pc' = "pdf_returned"
    /\ UNCHANGED <<grammar_errors, transcript_entities, cv_entities, matched, cv_only,
                   ollama, llm_summary, y, doc, improvements, target, file, printed, wrap>>

\* step 8, lines 425-434: what main prints
Report ==
    /\ pc = "pdf_returned"
    /\ printed' =
            (IF Contains(llm_summary, "VERDICT:") THEN <<VerdictLines(llm_summary)[1]>> ELSE <<>>)
         \o (IF success THEN <<"REPORT READY">> ELSE <<>>)
    /\ pc' = "done"
    /\ UNCHANGED <<grammar_errors, transcript_entities, cv_entities, matched, cv_only,
                   ollama, llm_summary, y, doc, improvements, target, file, success, wrap>>

Next ==
    \/ Analyze
    \/ AnalyzeFails
    \/ Compare
    \/ Judge(PipelineOutcomes)
    \/ PdfPage1
    \/ PdfImprovements
    \/ PdfRecommendations
    \/ PdfNextStepsHeader
    \/ PdfNextSteps
    \/ PdfSave
    \/ PdfFails
    \/ Report

Spec == Init /\ [][Next]_vars

-----------------------------------------------------------------------------
(* compare_entities on its own: every pair of entity sets *)

InitCompare ==
    /\ pc = "analyzed"
    /\ grammar_errors = 0
    /\ transcript_entities \in SUBSET Entities(MaxEntities)
    /\ cv_entities \in SUBSET Entities(MaxEntities)
    /\ matched = {}
    /\ cv_only = {}
    /\ ollama = NoOutcome
    /\ llm_summary = ""
    /\ y = 0
    /\ doc = <<>>
    /\ improvements = <<>>
    /\ target = "unknown"
    /\ file = NoFile
    /\ success = FALSE
    /\ printed = <<>>
    /\ wrap = NoWrap

NextCompare == Compare

SpecCompare == InitCompare /\ [][NextCompare]_vars

(* get_llm_judgment on its own: every count and every outcome of the judge *)

InitJudge ==
    /\ pc = "compared"
    /\ grammar_errors \in 0..MaxGrammarErrors
    /\ \E k \in 0..MaxSkills :
         /\ matched = Entities(k)
         /\ cv_only = EntityRange(k + 1, MaxSkills)
    /\ transcript_entities = matched
    /\ cv_entities = matched \cup cv_only
    /\ ollama = NoOutcome
    /\ llm_summary = ""
    /\ y = 0
    /\ doc = <<>>
    /\ improvements = <<>>
    /\ target = "unknown"
    /\ file = NoFile
    /\ success = FALSE
    /\ printed = <<>>
    /\ wrap = NoWrap

NextJudge == Judge(AllOutcomes)

SpecJudge == InitJudge /\ [][NextJudge]_vars

-----------------------------------------------------------------------------
(* Properties *)

\* C1: compare_entities returns matched = A \cap B and unmentioned = B \ A for
\* the transcript entities A and the CV entities B, entity by entity under
\* equality of the (text, label) pair, and no entity is in both results;
\* this includes the runs where A or B is empty.
CompareIsIntersectionAndDifference ==
    pc = "compared" =>
        /\ \A e \in Entities(Len(EntityPool)) :
             /\ e \in matched <=> (e \in transcript_entities /\ e \in cv_entities)
             /\ e \in cv_only <=> (e \in cv_entities /\ e \notin transcript_entities)
        /\ ~ \E e \in matched : e \in cv_only

\* C1 witness: a comparison with matched, unmentioned and transcript-only
\* entities, two of which share their text and differ in their label
CompareWitness ==
    /\ pc = "compared"
    /\ <<"Python", "SKILL">> \in matched
    /\ <<"Python", "ORG">> \in cv_only
    /\ transcript_entities \ cv_entities # {}

\* the judge gave nothing usable: it is unavailable, it failed, or its text is
\* empty or not longer than 30 characters
JudgeUnusable ==
    \/ ollama.kind \in {"import_error", "exception", "dict_no_key", "dict_none"}
    \/ Len(ollama.text) <= 30

\* the verdict of section 4.2: first rule that matches
HeuristicVerdict(errors, n_matched) ==
    IF errors > 15 THEN "REJECT"
    ELSE IF errors < 5 /\ n_matched >= 3 THEN "HIRE"
    ELSE "REVIEW"

\* the token a verdict is emitted as
Emitted(verdict) == IF verdict = "REVIEW" THEN "MAYBE" ELSE verdict

\* C2: whatever the external judge did, get_llm_judgment returns (no
\* exception leaves it) and some line of the returned text contains
\* "VERDICT:", so the line scan of main finds a line.
JudgmentAlwaysHasVerdictLine ==
    pc # "compared" =>
        /\ pc = "judged"
        /\ \E k \in 1..Len(SplitLines(llm_summary)) :
             Contains(SplitLines(llm_summary)[k], "VERDICT:")

\* C2 witness: the judge answered with a non-empty text of at most 30
\* characters
UndersizedResponseJudged ==
    /\ pc = "judged"
    /\ ollama.kind = "dict"
    /\ ollama.text # ""
    /\ Len(ollama.text) <= 30

\* C3: when the judge is unusable, the returned text has one VERDICT: line and
\* it carries the heuristic verdict of the same counts (REVIEW written MAYBE).
FallbackVerdictIsHeuristic ==
    (pc = "judged" /\ JudgeUnusable) =>
        VerdictLines(llm_summary) =
            << "VERDICT: " \o Emitted(HeuristicVerdict(grammar_errors, Cardinality(matched))) >>

\* C3 witness: a failed call with more than 15 errors and three matched skills
FallbackRejectsDespiteMatches ==
    /\ pc = "judged"
    /\ ollama.kind = "exception"
    /\ grammar_errors > 15
    /\ Cardinality(matched) >= 3
    /\ VerdictLines(llm_summary) = <<"VERDICT: REJECT">>

\* the verdicts a line names; MAYBE and REVIEW are one verdict
NamedVerdicts(line) ==
    {v \in {"HIRE", "REJECT", "REVIEW"} :
        \/ Contains(line, v)
        \/ (v = "REVIEW" /\ Contains(line, "MAYBE"))}

\* C4, as claimed: the returned text has exactly one verdict line, and that
\* line names exactly one of HIRE, REJECT, MAYBE/REVIEW.
ExactlyOneVerdictNamed ==
    pc = "judged" =>
        /\ Len(VerdictLines(llm_summary)) = 1
        /\ Cardinality(NamedVerdicts(VerdictLines(llm_summary)[1])) = 1


\* the canvas operations of one kind that a section emitted, in order
OpsOf(part, op) == SelectSeq(doc, LAMBDA o : o.part = part /\ o.op = op)

\* the strings a section drew, in order
TextsOf(part) == [k \in 1..Len(OpsOf(part, "text")) |-> OpsOf(part, "text")[k].s]

\* all sections of the document are drawn and the footer is not yet
SectionsDrawn == pc = "pdf_save"

BannerColor == OpsOf("banner", "rect")[1].color

ColorOf(verdict) ==
    CASE verdict = "HIRE" -> Green
      [] verdict = "REJECT" -> Red
      [] verdict = "REVIEW" -> Amber

ListOf(verdict) ==
    CASE verdict = "HIRE" -> HireRecommendations
      [] verdict = "REJECT" -> RejectRecommendations
      [] verdict = "REVIEW" -> ConditionalRecommendations

\* the banner and the recommendation list are those of `verdict`
DocumentShows(verdict) ==
    /\ BannerColor = ColorOf(verdict)
    /\ TextsOf("recommendations") = <<"# HR RECOMMENDATIONS">> \o ListOf(verdict)

\* the judgment has one VERDICT: line and it names one verdict
SingleVerdictLine ==
    /\ Len(VerdictLines(llm_summary)) = 1
    /\ Cardinality(NamedVerdicts(VerdictLines(llm_summary)[1])) = 1

\* C5, as claimed: the banner and the recommendation list are those of the
\* one verdict named on the judgment's VERDICT: line, whatever words the
\* narrative uses.
DocumentFollowsVerdictLine ==
    (SectionsDrawn /\ SingleVerdictLine) =>
        DocumentShows(CHOOSE v \in NamedVerdicts(VerdictLines(llm_summary)[1]) : TRUE)

\* C6: on the fallback path the banner and the recommendation list are those
\* of the heuristic verdict of the counts.
FallbackDocumentMatchesHeuristic ==
    (SectionsDrawn /\ ollama.kind = "import_error") =>
        DocumentShows(HeuristicVerdict(grammar_errors, Cardinality(matched)))

\* C6 witness: 2 errors, one matched and two unmentioned entities: amber
FallbackReviewDocument ==
    /\ SectionsDrawn
    /\ ollama.kind = "import_error"
    /\ grammar_errors = 2
    /\ Cardinality(matched) = 1
    /\ Cardinality(cv_only) = 2
    /\ BannerColor = Amber
    /\ TextsOf("recommendations")[2] = "* CONDITIONAL - Requires further evaluation"

\* the lines wrap_text draws for the next-steps text `steps`
StepLines(steps) ==
    LET st == wrap_text([y |-> PageTop, doc |-> <<>>, part |-> "next_steps"], steps, 9, 15)
    IN  [k \in 1..Len(st.doc) |-> st.doc[k].s]

\* C7, as claimed: under a REVIEW verdict the next steps drawn are neither
\* the HIRE steps nor the REJECT steps.
ReviewHasOwnNextSteps ==
    (/\ SectionsDrawn
     /\ ollama.kind = "import_error"
     /\ HeuristicVerdict(grammar_errors, Cardinality(matched)) = "REVIEW") =>
        /\ TextsOf("next_steps") # <<"# NEXT STEPS">> \o StepLines(HireSteps)
        /\ TextsOf("next_steps") # <<"# NEXT STEPS">> \o StepLines(RejectSteps)

\* generate_beautiful_pdf has drawn a section and has more to draw
BetweenSections ==
    pc \in {"pdf_improvements", "pdf_recommendations", "pdf_next_steps_header", "pdf_next_steps"}

\* C8, as claimed: the cursor is never below the bottom margin while the
\* document is being drawn.
CursorNeverBelowMargin == BetweenSections => y >= BottomMargin

\* C8, amended: nothing but the footer is drawn below the bottom margin.
NothingDrawnBelowMargin ==
    \A k \in 1..Len(doc) :
        (doc[k].op \in {"text", "rect", "line"} /\ doc[k].part # "footer") =>
            doc[k].y >= BottomMargin

\* C8 witness: the next steps were wrapped from a cursor below the margin:
\* wrap_text broke the page there and drew them on the new page
StepsMovedToNewPage ==
    /\ SectionsDrawn
    /\ \E k \in 1..Len(doc) :
         /\ doc[k].op = "page"
         /\ doc[k].part = "next_steps"
         /\ doc[k].y < BottomMargin
    /\ Len(TextsOf("next_steps")) > 1

\* C10, as claimed: True is returned only with an artifact that exists and is
\* not empty, and main prints REPORT READY only when True was returned.
SuccessMeansNonEmptyArtifact ==
    /\ (pc \in {"pdf_returned", "done"} /\ success) => (file.exists /\ file.size > 0)
    /\ (pc = "done" /\ \E k \in 1..Len(printed) : printed[k] = "REPORT READY") => success

\* the judge answered with a string of more than 30 characters
LongResponse ==
    /\ ollama.kind \in {"dict", "object"}
    /\ Len(ollama.text) > MinAssessmentLen

IsLetter(c) == c \in DOMAIN UpperOf \/ c \in {UpperOf[l] : l \in DOMAIN UpperOf}

\* s has the word w (given in upper case) in some case: the letters of w with
\* no letter before or after them
ContainsWord(s, w) ==
    \E i \in 1..(Len(s) - Len(w) + 1) :
        /\ Upper(SubSeq(s, i, i + Len(w) - 1)) = w
        /\ (i = 1 \/ ~IsLetter(Char(s, i - 1)))
        /\ (i + Len(w) > Len(s) \/ ~IsLetter(Char(s, i + Len(w))))

\* C11, as claimed: a response of more than 30 characters is returned
\* unchanged when it contains "VERDICT:"; otherwise it is returned followed by
\* a blank line and one verdict line, "VERDICT: HIRE" when the response has
\* the word HIRE in any case and "VERDICT: REJECT" when it has not.
LongResponseJudgedByItsWords ==
    (pc = "judged" /\ LongResponse) =>
        IF Contains(ollama.text, "VERDICT:")
        THEN llm_summary = ollama.text
        ELSE SplitLines(llm_summary) =
                 SplitLines(ollama.text)
                 \o << "", IF ContainsWord(ollama.text, "HIRE")
                           THEN "VERDICT: HIRE" ELSE "VERDICT: REJECT" >>

\* the improvement list has been built and rendered
ImprovementsDrawn ==
    pc \in {"pdf_recommendations", "pdf_next_steps_header", "pdf_next_steps", "pdf_save"}

\* the five areas in the order the list is built in
AreaOrder ==
    << "Communication Polish", "Experience Discussion", "Technical Knowledge",
       "Communication Excellence", "Confidence & Presence" >>

\* whether the counts of the run call for an area
AreaDue(area) ==
    CASE area = "Communication Polish" -> grammar_errors > 5
      [] area = "Experience Discussion" -> Cardinality(cv_only) > Cardinality(matched)
      [] area = "Technical Knowledge" -> Cardinality(matched) > 0 /\ Cardinality(matched) < 3
      [] area = "Communication Excellence" -> grammar_errors = 0
      [] area = "Confidence & Presence" -> TRUE

\* the areas of the list, in list order
Areas == [k \in 1..Len(improvements) |-> improvements[k].area]

\* the numbered headings drawn in the improvements section, in drawing order
ItemHeadings ==
    SelectSeq(TextsOf("improvements"), LAMBDA t : Len(t) > 3 /\ SubSeq(t, 2, 3) = ". ")

\* C12: the improvement list holds exactly the areas the counts call for, in
\* the fixed order and ending in the confidence item; it has 1 to 4 items,
\* never both communication items, and the items are drawn numbered 1..n in
\* list order.
ImprovementListIsOrderedByThresholds ==
    ImprovementsDrawn =>
        /\ Areas = SelectSeq(AreaOrder, AreaDue)
        /\ Len(improvements) \in 1..4
        /\ Areas[Len(Areas)] = "Confidence & Presence"
        /\ ~ \E j, k \in 1..Len(Areas) :
               Areas[j] = "Communication Polish" /\ Areas[k] = "Communication Excellence"
        /\ ItemHeadings = [k \in 1..Len(Areas) |-> ToString(k) \o ". " \o Areas[k]]

\* C12 witness: 7 errors, one matched and three unmentioned entities: four
\* items, the confidence item drawn as the fourth
FourImprovementsDrawn ==
    /\ ImprovementsDrawn
    /\ grammar_errors = 7
    /\ Cardinality(matched) = 1
    /\ Cardinality(cv_only) = 3
    /\ Len(improvements) = 4
    /\ ItemHeadings[4] = "4. Confidence & Presence"

-----------------------------------------------------------------------------
(* wrap_text on its own *)

\* words per paragraph in the stand-alone runs
MaxWrapWords == 3

\* a short word, two that share a line, and one wider than any line
WrapVocabulary ==
    {"ab",
     "bipwdkryfmtahovcjqxelszgnubipw",
     "fmtahovcjqxelszgnubipwdkryfmtahovcjqxelszgnubipwdkryfmt",
     "lszgnubipwdkryfmtahovcjqxelszgnubipwdkryfmtahovcjqxelszgnubipwdkryfmtahovcjqxelszgnubipwdkryfmtahovcjqxelszgnubipwdkryfm"}

RECURSIVE Join(_, _)
\* sep.join(words)
Join(words, sep) ==
    IF Len(words) = 0 THEN ""
    ELSE IF Len(words) = 1 THEN words[1]
    ELSE words[1] \o sep \o Join(Tail(words), sep)

WrapTexts ==
    {Join(ws, sep) : ws \in UNION {[1..n -> WrapVocabulary] : n \in 0..MaxWrapWords},
                     sep \in {" ", " \n"}}

InitWrap ==
    /\ pc = "wrap_call"
    /\ wrap \in [text : WrapTexts, size : {9, 10}, indent : {0, 30}]
    /\ y \in {PageTop, 62, BottomMargin, 36}
    /\ doc = <<>>
    /\ grammar_errors = 0
    /\ transcript_entities = {}
    /\ cv_entities = {}
    /\ matched = {}
    /\ cv_only = {}
    /\ ollama = NoOutcome
    /\ llm_summary = ""
    /\ improvements = <<>>
    /\ target = "unknown"
    /\ file = NoFile
    /\ success = FALSE
    /\ printed = <<>>

\* y = wrap_text(y, text, size, indent)
WrapCall ==
    /\ pc = "wrap_call"
    /\ LET st == wrap_text(St("paragraph"), wrap.text, wrap.size, wrap.indent)
       IN  /\ y' = st.y
           /\ doc' = st.doc
    /\ pc' = "wrap_returned"
    /\ UNCHANGED <<grammar_errors, transcript_entities, cv_entities, matched, cv_only,
                   ollama, llm_summary, improvements, target, file, success, printed, wrap>>

NextWrap == WrapCall

SpecWrap == InitWrap /\ [][NextWrap]_vars

RECURSIVE CutFrom(_, _, _)
\* the drawn lines k.. are the words, in order, grouped into lines, each line
\* cut to its first 110 characters
CutFrom(lines, k, words) ==
    IF k > Len(lines) THEN Len(words) = 0
    ELSE \E n \in 1..Len(words) :
            /\ Prefix(Join(SubSeq(words, 1, n), " "), MaxLineChars) = lines[k]
            /\ CutFrom(lines, k + 1, SubSeq(words, n + 1, Len(words)))

\* C9: the lines wrap_text draws, in order, hold the words of text.split()
\* in order, none dropped, each line cut to its first 110 characters.
WrapKeepsWords ==
    pc = "wrap_returned" => CutFrom(TextsOf("paragraph"), 1, SplitWords(wrap.text))

\* C9 witness: a paragraph with a word wider than the line, drawn across a
\* page break
WideWordAcrossPageBreak ==
    /\ pc = "wrap_returned"
    /\ \E k \in 1..Len(doc) : doc[k].op = "page"
    /\ Len(TextsOf("paragraph")) >= 2
    /\ \E k \in 1..Len(TextsOf("paragraph")) :
         /\ Len(TextsOf("paragraph")[k]) = MaxLineChars
         /\ ~Fits(TextsOf("paragraph")[k], wrap.size, wrap.indent)

-----------------------------------------------------------------------------
(* The quick stats on their own, src/main.py:192-205 *)

\* largest grammar-error count in the stand-alone runs
MaxStatErrors == 36
\* most CV entities, matched and unmentioned together, in the stand-alone runs
MaxStatEntities == 6

InitStats ==
    /\ pc = "stats_call"
    /\ grammar_errors \in 0..MaxStatErrors
    /\ \E n \in 0..MaxStatEntities : \E m \in 0..n :
         /\ matched = Entities(m)
         /\ cv_only = EntityRange(m + 1, n)
    /\ transcript_entities = matched
    /\ cv_entities = matched \cup cv_only
    /\ y = VerdictBanner(TitleBlock, "").y
    /\ doc = <<>>
    /\ ollama = NoOutcome
    /\ llm_summary = ""
    /\ improvements = <<>>
    /\ target = "unknown"
    /\ file = NoFile
    /\ success = FALSE
    /\ printed = <<>>
    /\ wrap = NoWrap

\* lines 192-205 at the cursor the banner left
StatsCall ==
    /\ pc = "stats_call"
    /\ LET st == QuickStats(St("banner"), grammar_errors, Cardinality(matched),
                            Cardinality(cv_only), Cardinality(transcript_entities))
       IN  /\ y' = st.y
           /\ doc' = st.doc
    /\ pc' = "stats_returned"
    /\ UNCHANGED <<grammar_errors, transcript_entities, cv_entities, matched, cv_only,
                   ollama, llm_summary, improvements, target, file, success, printed, wrap>>

NextStats == StatsCall

SpecStats == InitStats /\ [][NextStats]_vars

\* the accuracy the quick stats are to show for the run's error count
ExpectedAccuracy ==
    IF 3 * grammar_errors >= 100 THEN 0 ELSE 100 - 3 * grammar_errors

\* p is 100 * |matched| / (|matched| + |unmentioned|) to the nearest integer,
\* and 0 when both sets are empty
IsAlignmentOfRun(p) ==
    LET m == Cardinality(matched)
        t == Cardinality(matched) + Cardinality(cv_only)
    IN  IF t = 0 THEN p = 0
        ELSE /\ 2 * (p * t - 100 * m) <= t
             /\ 2 * (100 * m - p * t) <= t

\* C13: the quick stats show accuracy max(0, 100 - 3 * errors), which is in
\* 0..100 (94 for 2 errors, 100 for none, 0 from 34 errors on and not
\* before), and the alignment 100 * |matched| / (|matched| + |unmentioned|),
\* 0 when both sets are empty, which is in 0..100 (33 for 1 matched and 2
\* unmentioned, 100 for 5 matched and none unmentioned).
QuickStatsInRange ==
    pc = "stats_returned" =>
        /\ ExpectedAccuracy \in 0..100
        /\ (ExpectedAccuracy = 0) <=> (grammar_errors >= 34)
        /\ grammar_errors = 2 => ExpectedAccuracy = 94
        /\ grammar_errors = 0 => ExpectedAccuracy = 100
        /\ TextsOf("stats")[2] = "v Grammar Accuracy: " \o ToString(ExpectedAccuracy) \o "%"
        /\ \E p \in 0..100 :
             /\ IsAlignmentOfRun(p)
             /\ (Cardinality(matched) = 1 /\ Cardinality(cv_only) = 2) => p = 33
             /\ (Cardinality(matched) = 5 /\ Cardinality(cv_only) = 0) => p = 100
             /\ TextsOf("stats")[3] =
                    "v Skills Discussed: " \o ToString(Cardinality(matched)) \o " out of "
                    \o ToString(Cardinality(matched) + Cardinality(cv_only))
                    \o " (" \o ToString(p) \o "%)"

\* C13 witness: 34 errors and no CV entity at all: accuracy 0, alignment 0
StatsAtTheEdges ==
    /\ pc = "stats_returned"
    /\ grammar_errors = 34
    /\ matched = {}
    /\ cv_only = {}
    /\ TextsOf("stats")[2] = "v Grammar Accuracy: 0%"
    /\ TextsOf("stats")[3] = "v Skills Discussed: 0 out of 0 (0%)"

====
